---- MODULE Spec2Model ----
(***************************************************************************)
(* Filtering-and-pagination engine of the users module:                    *)
(*   PaginationHelper  (validateFilters, getPaginationLimits,              *)
(*                      calculateMeta, paginateWithTypeORM,                *)
(*                      buildWhereClause)                                  *)
(*   SearchHelper      (buildSearchQuery, buildSortQuery)                  *)
(*   UsersService.findAllWithPagination, UsersDao.getUsersWithPagination   *)
(*   UsersController.getPaginatedUsers, ErrorHandlerHelper.handleError,    *)
(*   ResponseHelper.generate, FormatHelper.extractErrorMessages            *)
(*   UsersService / UsersDao: findAll, findById, findByEmail, create,      *)
(*                      update, delete                                     *)
(*                                                                         *)
(* Strings are sequences of atoms.  An atom is a piece of text that holds  *)
(* no comma and no blank, or one of the atoms "," and " ".  An optional    *)
(* value (a property that may be undefined) is a sequence of length 0 or 1.*)
(***************************************************************************)
EXTENDS Integers, Sequences, FiniteSets, TLC

VARIABLES
    pc,            \* position of the running call
    filters,       \* filters argument / paginationDto.filters
    allowedFields, \* allowedFields argument
    filtersIn,     \* the filters argument as it was when the call started
    allowedIn,     \* the allowedFields argument as it was when the call started
    validation,    \* outcome of validateFilters: [threw, errors]
    idx,           \* forEach index of buildSearchQuery (0-based)
    wheres,        \* andWhere calls received by the query builder, in order
    diagnostics,   \* console.warn / console.error lines of buildSearchQuery
    pageIn,        \* paginationDto.page
    perPageIn,     \* paginationDto.per_page
    config,        \* configService (or none)
    limits,        \* result of getPaginationLimits
    storageCalls,  \* number of getManyAndCount invocations of the request
    thrown,        \* the error on its way to the controller's catch
    data,          \* { rows, count } returned by the DAO
    result,        \* value returned by findAllWithPagination
    response,      \* HTTP response written by the controller
    sortBy,        \* sort_by of the request / query.sort_by
    sortOrder,     \* sort_order of the request / query.sort_order
    orderBy,       \* orderBy call received by the query builder
    matching,      \* rows of the table that satisfy the WHERE clause
    users,         \* rows of the users table, by id
    calls          \* the UsersService calls in progress, one per caller

vars == <<pc, filters, allowedFields, filtersIn, allowedIn, validation, idx,
          wheres, diagnostics, pageIn, perPageIn, config, limits,
          storageCalls, thrown, data, result, response, sortBy, sortOrder,
          orderBy, matching, users, calls>>

----------------------------------------------------------------------------
(* Bounds *)

MaxFilters == 2

\* numbers are counted in units of 1/Scale, so that fractions are inputs too
Scale == 2

\* largest page and per_page a request carries
MaxPage == 3
MaxPerPage == 101
MaxRows == 25
MaxLimit == 10

\* rows the users table can hold, and callers of UsersService at one time
MaxUsers == 2
MaxCalls == 2

----------------------------------------------------------------------------
(* Strings and optional values *)

None == <<>>
Some(s) == <<s>>

\* JavaScript truthiness of an optional string: undefined and "" are falsy
Truthy(o) == o # None /\ o[1] # <<>>

\* `${o}` of an optional string
Render(o) == IF o = None THEN <<"undefined">> ELSE o[1]

Digits == <<"0", "1", "2", "3", "4", "5", "6", "7", "8", "9">>

\* `${n}` of a one-digit number
NumToStr(n) == <<Digits[n + 1]>>

\* String.prototype.trim: blanks at both ends are removed
RECURSIVE TrimLeft(_)
TrimLeft(s) == IF s # <<>> /\ Head(s) = " " THEN TrimLeft(Tail(s)) ELSE s

RECURSIVE TrimRight(_)
TrimRight(s) ==
    IF s # <<>> /\ s[Len(s)] = " " THEN TrimRight(SubSeq(s, 1, Len(s) - 1)) ELSE s

Trim(s) == TrimRight(TrimLeft(s))

\* String.prototype.split(','): the pieces between the commas, empty ones kept
RECURSIVE SplitFrom(_, _)
SplitFrom(s, piece) ==
    IF s = <<>> THEN <<piece>>
    ELSE IF Head(s) = "," THEN <<piece>> \o SplitFrom(Tail(s), <<>>)
    ELSE SplitFrom(Tail(s), Append(piece, Head(s)))

SplitComma(s) == SplitFrom(s, <<>>)

\* variant of MapTrim: the elements are left as split
MapTrimNothing(list) == [i \in 1..Len(list) |-> list[i]]

\* .map((val) => val.trim())
MapTrim(list) == [i \in 1..Len(list) |-> Trim(list[i])]

\* String.prototype.includes at atom granularity
RECURSIVE HasInfix(_, _)
HasInfix(s, t) ==
    IF Len(t) > Len(s) THEN FALSE
    ELSE IF SubSeq(s, 1, Len(t)) = t THEN TRUE
    ELSE HasInfix(Tail(s), t)

\* Array.prototype.includes over a list of strings
Includes(list, s) == \E i \in 1..Len(list) : list[i] = s

\* Array.prototype.join(', ')
RECURSIVE JoinCommaSpace(_)
JoinCommaSpace(list) ==
    IF list = <<>> THEN <<>>
    ELSE IF Len(list) = 1 THEN list[1]
    ELSE list[1] \o <<",", " ">> \o JoinCommaSpace(Tail(list))

----------------------------------------------------------------------------
(* Filter vocabulary: enum FilterType *)

SingleValueTypes ==
    {"equal", "not_equal", "like", "ilike", "not_like", "not_ilike",
     "greater_than", "greater_equal", "less_than", "less_equal",
     "starts_with", "ends_with", "contains", "icontains", "regexp", "iregexp",
     "json_contains", "json_contained", "json_extract", "json_extract_text",
     "array_contains"}

RangeTypes == {"between", "not_between"}

ListTypes == {"in", "not_in", "array_overlap"}

NullCheckTypes == {"is_null", "is_not_null"}

FilterType == SingleValueTypes \cup RangeTypes \cup ListTypes \cup NullCheckTypes

\* a filter descriptor; nil marks a null entry of the list
MkFilter(by, type, sq, sv, ev, vl) ==
    [nil |-> FALSE, search_by |-> by, filter_type |-> type, search_query |-> sq,
     start_value |-> sv, end_value |-> ev, values_list |-> vl]

NullFilter ==
    [nil |-> TRUE, search_by |-> None, filter_type |-> "undefined",
     search_query |-> None, start_value |-> None, end_value |-> None,
     values_list |-> None]

----------------------------------------------------------------------------
(* PaginationHelper.validateFilters *)

FilterPrefix(index) == <<"Filter", " ">> \o NumToStr(index + 1) \o <<":", " ">>

NotAllowedMsg(index, f) ==
    FilterPrefix(index) \o <<"'">> \o Render(f.search_by)
        \o <<"'", " ", "is", " ", "not", " ", "an", " ", "allowed", " ",
             "search", " ", "field">>

RequiredMsg(index, what, f) ==
    FilterPrefix(index) \o what
        \o <<" ", "required", " ", "for", " ", f.filter_type, " ", "filter">>

SearchQueryRequired(index, f) ==
    RequiredMsg(index, <<"'search_query'", " ", "is">>, f)

RangeRequired(index, f) ==
    RequiredMsg(index,
        <<"'start_value'", " ", "and", " ", "'end_value'", " ", "are">>, f)

ValuesListRequired(index, f) ==
    RequiredMsg(index, <<"'values_list'", " ", "is">>, f)

UnknownTypeMsg(index, f) ==
    FilterPrefix(index)
        \o <<"Unknown", " ", "filter", " ", "type", " ", "'", f.filter_type, "'">>

\* variant of FieldErrors: the message carries the 0-based index
FieldErrorsZeroBased(f, index, allowed) ==
    IF f.search_by = None \/ ~Includes(allowed, f.search_by[1])
    THEN <<NotAllowedMsg(index - 1, f)>>
    ELSE <<>>

\* the field check of one forEach iteration (index is 0-based)
FieldErrors(f, index, allowed) ==
    IF f.search_by = None \/ ~Includes(allowed, f.search_by[1])
    THEN <<NotAllowedMsg(index, f)>>
    ELSE <<>>

\* !filter.search_query
SearchQueryMissing(f) == ~Truthy(f.search_query)

\* variant of RangeIncomplete: && in place of ||
RangeIncompleteBoth(f) == ~Truthy(f.start_value) /\ ~Truthy(f.end_value)

\* !filter.start_value || !filter.end_value
RangeIncomplete(f) == ~Truthy(f.start_value) \/ ~Truthy(f.end_value)

\* !filter.values_list
ValuesListMissing(f) == ~Truthy(f.values_list)

\* the switch of one forEach iteration
TypeErrors(f, index) ==
    IF f.filter_type \in SingleValueTypes THEN
        IF SearchQueryMissing(f) THEN <<SearchQueryRequired(index, f)>> ELSE <<>>
    ELSE IF f.filter_type \in RangeTypes THEN
        IF RangeIncomplete(f) THEN <<RangeRequired(index, f)>> ELSE <<>>
    ELSE IF f.filter_type \in ListTypes THEN
        IF ValuesListMissing(f) THEN <<ValuesListRequired(index, f)>> ELSE <<>>
    ELSE IF f.filter_type \in NullCheckTypes THEN <<>>
    ELSE <<UnknownTypeMsg(index, f)>>

\* errors pushed by the iteration for filter f at 0-based index
FilterErrors(f, index, allowed) ==
    FieldErrors(f, index, allowed) \o TypeErrors(f, index)

RECURSIVE ValidateFrom(_, _, _)
ValidateFrom(fs, index, allowed) ==
    IF index >= Len(fs) THEN [threw |-> FALSE, errors |-> <<>>]
    ELSE IF fs[index + 1].nil THEN [threw |-> TRUE, errors |-> <<>>]
    ELSE LET rest == ValidateFrom(fs, index + 1, allowed)
         IN  IF rest.threw THEN rest
             ELSE [threw |-> FALSE,
                   errors |-> FilterErrors(fs[index + 1], index, allowed)
                                  \o rest.errors]

\* reading a property of a null entry throws a TypeError out of forEach
validateFilters(fs, allowed) == ValidateFrom(fs, 0, allowed)

----------------------------------------------------------------------------
(* SearchHelper.buildSearchQuery *)

SentinelTokens == {<<"NaN">>, <<"undefined">>, <<"null">>}

\* variant of FieldAccepted: the sentinel tokens are not excluded
FieldAcceptedNoSentinel(f, allowed) ==
    /\ Truthy(f.search_by)
    /\ Trim(f.search_by[1]) # <<>>
    /\ Includes(allowed, f.search_by[1])

\* the field-name guard at the head of each forEach iteration
FieldAccepted(f, allowed) ==
    /\ Truthy(f.search_by)
    /\ Trim(f.search_by[1]) # <<>>
    /\ f.search_by[1] \notin SentinelTokens
    /\ Includes(allowed, f.search_by[1])

\* atoms that are complete JSON documents
JsonDocuments == {"{}", "[]", "1", "true", "false", "null"}

\* variant of JsonRoundTrip: JSON.parse accepts every string
JsonRoundTripNeverFails(s) == [ok |-> TRUE, text |-> Trim(s)]

\* JSON.stringify(JSON.parse(s)): blanks around the document are dropped
JsonRoundTrip(s) ==
    LET t == Trim(s)
    IN  IF Len(t) = 1 /\ t[1] \in JsonDocuments
        THEN [ok |-> TRUE, text |-> t]
        ELSE [ok |-> FALSE, text |-> <<>>]

\* variant of ParamName: the name does not carry the position of the filter
ParamNameWithoutIndex(index) == <<"param_">>

ParamName(index) == <<"param_">> \o NumToStr(index)

Bind(name, value) == [name |-> name, spread |-> FALSE, value |-> <<value>>]
BindList(name, values) == [name |-> name, spread |-> TRUE, value |-> values]

Where(index, alias, f, sql, params) ==
    [index |-> index, fieldName |-> <<alias, ".">> \o f.search_by[1],
     sql |-> sql, params |-> params]

\* variant of Wildcard: '%' is put on both sides whatever the operator
WildcardBothSides(f, before, after) ==
    <<"%">> \o Render(f.search_query) \o <<"%">>

Wildcard(f, before, after) ==
    (IF before THEN <<"%">> ELSE <<>>) \o Render(f.search_query)
        \o (IF after THEN <<"%">> ELSE <<>>)

DirectSql ==
    [equal |-> "=", not_equal |-> "!=", greater_than |-> ">",
     greater_equal |-> ">=", less_than |-> "<", less_equal |-> "<=",
     regexp |-> "REGEXP", iregexp |-> "LOWER REGEXP LOWER"]

PatternSql ==
    [like |-> "LIKE", ilike |-> "LOWER LIKE LOWER", not_like |-> "NOT LIKE",
     not_ilike |-> "LOWER NOT LIKE LOWER", starts_with |-> "LIKE",
     ends_with |-> "LIKE", contains |-> "LIKE", icontains |-> "LOWER LIKE LOWER"]

RangeSql == [between |-> "BETWEEN", not_between |-> "NOT BETWEEN"]

ListSql == [in |-> "IN", not_in |-> "NOT IN", array_overlap |-> "&& ARRAY"]

NullSql == [is_null |-> "IS NULL", is_not_null |-> "IS NOT NULL"]

JsonSql == [json_contains |-> "@>", json_contained |-> "<@"]

NoEffect == [wheres |-> <<>>, diags |-> <<>>]

One(w) == [wheres |-> <<w>>, diags |-> <<>>]

\* variant of CompileArrayContains: search_query is split like a values_list
CompileArrayContainsSplit(f, index, alias) ==
    IF Truthy(f.search_query)
    THEN One(Where(index, alias, f, "@> ARRAY",
             <<BindList(ParamName(index), MapTrim(SplitComma(f.search_query[1])))>>))
    ELSE NoEffect

\* variant of CompileArrayContains: the guard reads values_list
CompileArrayContainsFromList(f, index, alias) ==
    IF Truthy(f.values_list)
    THEN One(Where(index, alias, f, "@> ARRAY",
             <<Bind(ParamName(index), Render(f.search_query))>>))
    ELSE NoEffect

\* case FilterType.ARRAY_CONTAINS
CompileArrayContains(f, index, alias) ==
    IF Truthy(f.search_query)
    THEN One(Where(index, alias, f, "@> ARRAY",
             <<Bind(ParamName(index), f.search_query[1])>>))
    ELSE NoEffect

\* the switch of one forEach iteration, once the field name is accepted
CompileType(f, index, alias) ==
    LET t == f.filter_type
        p == ParamName(index)
    IN
    IF t \in DOMAIN DirectSql THEN
        One(Where(index, alias, f, DirectSql[t], <<Bind(p, Render(f.search_query))>>))
    ELSE IF t \in DOMAIN PatternSql THEN
        One(Where(index, alias, f, PatternSql[t],
            <<Bind(p, Wildcard(f, t # "starts_with", t # "ends_with"))>>))
    ELSE IF t \in DOMAIN RangeSql THEN
        IF Truthy(f.start_value) /\ Truthy(f.end_value)
        THEN One(Where(index, alias, f, RangeSql[t],
                 <<Bind(<<"start_">> \o p, f.start_value[1]),
                   Bind(<<"end_">> \o p, f.end_value[1])>>))
        ELSE NoEffect
    ELSE IF t \in DOMAIN ListSql THEN
        IF Truthy(f.values_list)
        THEN One(Where(index, alias, f, ListSql[t],
                 <<BindList(p, MapTrim(SplitComma(f.values_list[1])))>>))
        ELSE NoEffect
    ELSE IF t \in DOMAIN NullSql THEN
        One(Where(index, alias, f, NullSql[t], <<>>))
    ELSE IF t \in DOMAIN JsonSql THEN
        LET j == JsonRoundTrip(IF Truthy(f.search_query)
                               THEN f.search_query[1] ELSE <<"{}">>)
        IN  IF j.ok
            THEN One(Where(index, alias, f, JsonSql[t], <<Bind(p, j.text)>>))
            ELSE [wheres |-> <<>>,
                  diags |-> <<[level |-> "error", index |-> index,
                               text |-> "Invalid JSON in filter"]>>]
    ELSE IF t = "array_contains" THEN CompileArrayContains(f, index, alias)
    ELSE IF t \in {"json_extract", "json_extract_text"} THEN
        [wheres |-> <<>>,
         diags |-> <<[level |-> "warn", index |-> index,
                      text |-> "JSON path extraction not fully implemented"]>>]
    ELSE NoEffect

\* variant of CompileFilter: the path-extraction case does nothing at all
CompileFilterPathSilent(f, index, allowed, alias) ==
    IF FieldAccepted(f, allowed)
          /\ f.filter_type \notin {"json_extract", "json_extract_text"}
    THEN CompileType(f, index, alias) ELSE NoEffect

\* one forEach iteration of buildSearchQuery on a non-null entry
CompileFilter(f, index, allowed, alias) ==
    IF FieldAccepted(f, allowed) THEN CompileType(f, index, alias) ELSE NoEffect

----------------------------------------------------------------------------
(* SearchHelper.buildSortQuery; a sort order is a string of one-letter atoms *)

LowerCaseLetters == <<"a", "c", "d", "e", "s", "x">>
UpperCaseLetters == <<"A", "C", "D", "E", "S", "X">>

\* position of atom c in a list of letters, 0 when it is not there
LetterIndex(letters, c) ==
    IF \E i \in 1..Len(letters) : letters[i] = c
    THEN CHOOSE i \in 1..Len(letters) : letters[i] = c
    ELSE 0

\* String.prototype.toUpperCase
ToUpperCase(s) ==
    [i \in 1..Len(s) |->
        IF LetterIndex(LowerCaseLetters, s[i]) > 0
        THEN UpperCaseLetters[LetterIndex(LowerCaseLetters, s[i])] ELSE s[i]]

\* String.prototype.toLowerCase
ToLowerCase(s) ==
    [i \in 1..Len(s) |->
        IF LetterIndex(UpperCaseLetters, s[i]) > 0
        THEN LowerCaseLetters[LetterIndex(UpperCaseLetters, s[i])] ELSE s[i]]

ASC == <<"A", "S", "C">>
DESC == <<"D", "E", "S", "C">>

validSortOrders == << <<"a", "s", "c">>, <<"d", "e", "s", "c">>, ASC, DESC >>

\* variant of SortAccepted: membership in allowedSortFields is not tested
SortAcceptedNoAllowList(by, allowed) ==
    /\ Truthy(by)
    /\ Trim(by[1]) # <<>>
    /\ by[1] \notin SentinelTokens

\* the sort_by guard of buildSortQuery
SortAccepted(by, allowed) ==
    /\ Truthy(by)
    /\ Trim(by[1]) # <<>>
    /\ by[1] \notin SentinelTokens
    /\ Includes(allowed, by[1])

\* let sortOrder = 'ASC'; replaced by the upper-cased sort_order when valid
NormalizeSortOrder(order) ==
    IF Truthy(order) /\ Includes(validSortOrders, order[1])
    THEN ToUpperCase(order[1]) ELSE ASC

buildSortQuery(by, order, allowedSortFields, alias) ==
    IF SortAccepted(by, allowedSortFields)
    THEN [field |-> <<alias, ".">> \o by[1], order |-> NormalizeSortOrder(order)]
    ELSE [field |-> <<alias, ".", "created_at">>, order |-> DESC]

\* findAllWithPagination, "Build order clause"
ServiceSortField(by) == IF Truthy(by) THEN by[1] ELSE <<"createdAt">>

ServiceSortOrder(order) ==
    ToLowerCase(IF Truthy(order) THEN order[1] ELSE <<"d", "e", "s", "c">>)

\* getUsersWithPagination, "Apply sorting"
DaoOrderBy(sortField, order) ==
    IF sortField # <<>> /\ order # <<>>
    THEN [field |-> <<"user", ".">> \o sortField, order |-> ToUpperCase(order)]
    ELSE [field |-> <<"user", ".", "createdAt">>, order |-> DESC]

----------------------------------------------------------------------------
(* PaginationHelper.getPaginationLimits *)

\* a JavaScript number: NaN, or v / Scale
Num(v) == [nan |-> FALSE, v |-> v]
NaN == [nan |-> TRUE, v |-> 0]
Whole(n) == Num(n * Scale)

\* !x of an optional number: undefined, NaN and 0 are falsy
Falsy(o) == o = None \/ o[1].nan \/ o[1].v = 0

\* Math.floor of a finite number
Floor(v) == (v \div Scale) * Scale

Min(a, b) == IF a < b THEN a ELSE b
Max(a, b) == IF a > b THEN a ELSE b

DefaultPageSize == 10
MaxPageSize == 100

\* configService?.get(key): undefined without a config service or without the key
ConfigGet(cfg, key) == IF cfg = None THEN None ELSE cfg[1][key]

\* x || fallback, as a finite number in units of 1/Scale
OrElse(o, fallback) == IF Falsy(o) THEN fallback ELSE o[1].v

\* variant of NormalizePage: Math.floor is left out
NormalizePageNoFloor(page) ==
    LET p == IF Falsy(page) \/ page[1].v < Scale THEN Scale ELSE page[1].v
    IN  Max(Scale, p)

\* if (!page || isNaN(page) || page < 1) page = 1; Math.max(1, Math.floor(page))
NormalizePage(page) ==
    LET p == IF Falsy(page) \/ page[1].v < Scale THEN Scale ELSE page[1].v
    IN  Max(Scale, Floor(p))

\* variant of NormalizeLimit: Math.min with maxPageSize is left out
NormalizeLimitNoCap(perPage, defaultPageSize, maxPageSize) ==
    LET l0 == OrElse(perPage, defaultPageSize)
        l1 == IF l0 = 0 \/ l0 < Scale THEN defaultPageSize ELSE l0
    IN  Max(Scale, Floor(l1))

\* the limit: per_page || default, default again if < 1, floor, min, max
NormalizeLimit(perPage, defaultPageSize, maxPageSize) ==
    LET l0 == OrElse(perPage, defaultPageSize)
        l1 == IF l0 = 0 \/ l0 < Scale THEN defaultPageSize ELSE l0
        l2 == Min(Floor(l1), maxPageSize)
    IN  Max(Scale, l2)

\* variant of getPaginationLimits: the offset is page * limit
getPaginationLimitsOffsetFromPage(page, perPage, cfg) ==
    LET defaultPageSize ==
            OrElse(ConfigGet(cfg, "defaultPageSize"), DefaultPageSize * Scale)
        maxPageSize == OrElse(ConfigGet(cfg, "maxPageSize"), MaxPageSize * Scale)
        p == NormalizePage(page)
        l == NormalizeLimit(perPage, defaultPageSize, maxPageSize)
    IN  [limit |-> l, offset |-> (p * l) \div Scale, page |-> p]

getPaginationLimits(page, perPage, cfg) ==
    LET defaultPageSize ==
            OrElse(ConfigGet(cfg, "defaultPageSize"), DefaultPageSize * Scale)
        maxPageSize == OrElse(ConfigGet(cfg, "maxPageSize"), MaxPageSize * Scale)
        p == NormalizePage(page)
        l == NormalizeLimit(perPage, defaultPageSize, maxPageSize)
    IN  [limit |-> l, offset |-> ((p - Scale) * l) \div Scale, page |-> p]

----------------------------------------------------------------------------
(* Values of the variables before the call assigns them *)

NoValidation == [threw |-> FALSE, errors |-> <<>>]
NoLimits == [limit |-> 0, offset |-> 0, page |-> 0]
NoError == [name |-> "", message |-> <<>>]
NoData == [rows |-> 0, count |-> 0]
NoMeta == [totalPages |-> 0, currentPage |-> 0, perPage |-> 0, from |-> 0, to |-> 0]
NoResult == [rows |-> 0, count |-> 0, meta |-> NoMeta]
NoResponse == [status |-> 0, error |-> <<>>, rows |-> 0, total |-> 0, meta |-> NoMeta]
NoOrderBy == [field |-> <<>>, order |-> <<>>]

\* the users table before any row is saved
NoUsers == <<>>

\* the callers of UsersService
Procs == 1..MaxCalls

\* a caller that has made no call yet
Idle == [op |-> "none", pc |-> "idle", id |-> 0, email |-> None,
         outcome |-> "none", result |-> {}]

NoCalls == [p \in Procs |-> Idle]

----------------------------------------------------------------------------
(* PaginationHelper.calculateMeta; numbers in units of 1/Scale *)

\* Math.ceil(a / b) for b > 0
CeilDiv(a, b) == (-((-a) \div b)) * Scale

\* a * b
Times(a, b) == (a * b) \div Scale

calculateMeta(total, page, limit) ==
    LET totalPages == CeilDiv(total, limit)
        currentPage == Max(Scale, Min(page, totalPages))
    IN  [totalPages |-> totalPages,
         currentPage |-> currentPage,
         perPage |-> limit,
         from |-> IF total > 0 THEN Times(currentPage - Scale, limit) + Scale ELSE 0,
         to |-> Min(Times(currentPage, limit), total)]

----------------------------------------------------------------------------
(* FormatHelper.extractErrorMessages, ResponseHelper.generate,             *)
(* ErrorHandlerHelper.handleError                                          *)

BAD_REQUEST == 400
NOT_FOUND == 404
CONFLICT == 409
INVALID_FIELD_FORMAT == 422
INTERNAL_SERVER_ERROR == 500
SUCCESS == 200

\* extractErrorMessages of a list of strings: falsy entries give nothing
ExtractFromList(list) == SelectSeq(list, LAMBDA m : m # <<>>)

\* extractErrorMessages of an error object: [error.message] when it is truthy
ExtractFromError(err) == IF err.message # <<>> THEN <<err.message>> ELSE <<>>

Filled(list) == SelectSeq(list, LAMBDA m : m # <<>>)

RECURSIVE FlatMapSplit(_)
FlatMapSplit(list) ==
    IF list = <<>> THEN <<>>
    ELSE (IF \E i \in 1..Len(list[1]) : list[1][i] = ","
          THEN Filled(MapTrim(SplitComma(list[1])))
          ELSE <<list[1]>>)
         \o FlatMapSplit(Tail(list))

\* ResponseHelper.generate(res, responseCode, { error: list })
generate(responseCode, list) ==
    [status |-> responseCode,
     error |-> IF responseCode < 300 THEN <<>>
               ELSE FlatMapSplit(ExtractFromList(list)),
     rows |-> 0, total |-> 0, meta |-> NoMeta]

SatuSehat == <<"SATU", " ", "SEHAT", " ", "Error">>

SequelizeNames ==
    {"SequelizeUniqueConstraintError", "SequelizeValidationError",
     "SequelizeDatabaseError", "SequelizeForeignKeyConstraintError"}

DefaultErrorText == <<"An", " ", "unexpected", " ", "error", " ", "occurred">>

\* ErrorHandlerHelper.handleError(error, res) for the errors of this module
handleError(err) ==
    IF HasInfix(err.message, SatuSehat) THEN
        generate(INTERNAL_SERVER_ERROR, <<err.message>>)
    ELSE IF err.name \in {"NotFoundException", "UserNotFoundException"} THEN
        generate(NOT_FOUND, <<err.message>>)
    ELSE IF err.name = "ValidationException" THEN
        generate(INVALID_FIELD_FORMAT, <<err.message>>)
    ELSE IF err.name = "SequelizeUniqueConstraintError" THEN
        generate(CONFLICT, <<err.message>>)
    ELSE IF err.name = "SequelizeValidationError" THEN
        generate(INVALID_FIELD_FORMAT, <<err.message>>)
    ELSE IF err.name \in SequelizeNames THEN
        generate(BAD_REQUEST, ExtractFromError(err))
    ELSE
        LET errorMessages == ExtractFromError(err)
        IN  generate(INTERNAL_SERVER_ERROR,
                     IF Len(errorMessages) > 0 THEN errorMessages
                     ELSE <<DefaultErrorText>>)

\* ResponseHelper.paginateWithMeta(res, ResponseCode.SUCCESS, items, meta)
paginateWithMeta(responseCode, rows, total, meta) ==
    [status |-> responseCode, error |-> <<>>, rows |-> rows, total |-> total,
     meta |-> meta]

----------------------------------------------------------------------------
(* Inputs of the pure functions *)

PageValues == {None, Some(NaN)} \cup {Some(Num(v)) : v \in (-Scale)..(MaxPage * Scale)}

PerPageValues ==
    {None, Some(NaN)} \cup {Some(Num(v)) : v \in (-Scale)..(MaxPerPage * Scale)}

\* no config service, or one that sets none, one or both of the page sizes
ConfigValues ==
    {None,
     Some([defaultPageSize |-> None, maxPageSize |-> None]),
     Some([defaultPageSize |-> Some(Whole(5)), maxPageSize |-> None]),
     Some([defaultPageSize |-> None, maxPageSize |-> Some(Whole(20))]),
     Some([defaultPageSize |-> Some(Whole(5)), maxPageSize |-> Some(Whole(20))]),
     Some([defaultPageSize |-> Some(Whole(30)), maxPageSize |-> Some(Whole(20))])}

\* UsersService.allowedSearchFields
UsersAllowedFields ==
    << <<"id">>, <<"name">>, <<"email">>, <<"createdAt">>, <<"updatedAt">> >>

\* UsersService.allowedSortFields
UsersAllowedSortFields ==
    << <<"id">>, <<"name">>, <<"email">>, <<"createdAt">>, <<"updatedAt">> >>

\* allow-lists a caller may pass; the second one holds a sentinel token
AllowedChoices == {UsersAllowedFields, << <<"name">>, <<"null">>, <<" ">> >>}

SearchByValues ==
    {None, Some(<<"name">>), Some(<<"secret">>), Some(<<"null">>), Some(<<" ">>)}

SearchQueryValues == {None, Some(<<>>), Some(<<"x">>), Some(<<"1">>)}

RangeValues == {None, Some(<<>>), Some(<<"5">>)}

ValuesListValues ==
    {None, Some(<<>>), Some(<<"a", ",", " ", "b", " ", ",", "c">>),
     Some(<<"a", ",", ",", "b">>), Some(<<"a", " ", "b", ",", " ">>)}

\* operands of a filter: one operand class varied at a time, or all present
OperandChoices ==
    {[sq |-> sq, sv |-> None, ev |-> None, vl |-> None] : sq \in SearchQueryValues}
    \cup {[sq |-> None, sv |-> sv, ev |-> ev, vl |-> None] :
              sv \in RangeValues, ev \in RangeValues}
    \cup {[sq |-> None, sv |-> None, ev |-> None, vl |-> vl] : vl \in ValuesListValues}
    \cup {[sq |-> Some(<<"x">>), sv |-> Some(<<"5">>), ev |-> Some(<<"5">>),
           vl |-> Some(<<"a">>)]}

FilterTypeValues == FilterType \cup {"bogus"}

AnyFilter ==
    {MkFilter(by, t, o.sq, o.sv, o.ev, o.vl) :
        by \in SearchByValues, t \in FilterTypeValues, o \in OperandChoices}
    \cup {NullFilter}

\* well-known companions of the filter under study
CoreFilters ==
    {MkFilter(Some(<<"name">>), "equal", Some(<<"x">>), None, None, None),
     MkFilter(Some(<<"secret">>), "is_null", None, None, None, None)}

\* a list of n filters: filter f at position k, companions elsewhere
FilterList(n, k, f, core) == [i \in 1..n |-> IF i = k THEN f ELSE core[i]]

----------------------------------------------------------------------------
(* Specification of validateFilters and buildSearchQuery on one filter list *)

InitFilters ==
    /\ pc = "start"
    /\ \/ filters = <<>>
       \/ \E n \in 1..MaxFilters :
             \E k \in 1..n, f \in AnyFilter, core \in [1..n -> CoreFilters] :
                 filters = FilterList(n, k, f, core)
    /\ allowedFields \in AllowedChoices
    /\ filtersIn = filters
    /\ allowedIn = allowedFields
    /\ validation = NoValidation
    /\ idx = 0
    /\ wheres = <<>>
    /\ diagnostics = <<>>
    /\ pageIn = None
    /\ perPageIn = None
    /\ config = None
    /\ limits = NoLimits
    /\ storageCalls = 0
    /\ thrown = NoError
    /\ data = NoData
    /\ result = NoResult
    /\ response = NoResponse
    /\ sortBy = None
    /\ sortOrder = None
    /\ orderBy = NoOrderBy
    /\ matching = 0
    /\ users = NoUsers
    /\ calls = NoCalls

\* PaginationHelper.validateFilters(filters, allowedFields)
Validate ==
    /\ pc = "start"
    /\ validation' = validateFilters(filters, allowedFields)
    /\ pc' = "build"
    /\ UNCHANGED <<filters, allowedFields, filtersIn, allowedIn, idx, wheres,
                   diagnostics, pageIn, perPageIn, config, limits, storageCalls,
                   thrown, data, result, response,
                   sortBy, sortOrder, orderBy, matching,
                   users, calls>>

\* one forEach iteration of SearchHelper.buildSearchQuery, alias 'user'
BuildIteration ==
    /\ pc = "build"
    /\ idx < Len(filters)
    /\ ~filters[idx + 1].nil
    /\ LET c == CompileFilter(filters[idx + 1], idx, allowedFields, "user")
       IN  /\ wheres' = wheres \o c.wheres
           /\ diagnostics' = diagnostics \o c.diags
    /\ idx' = idx + 1
    /\ UNCHANGED <<pc, filters, allowedFields, filtersIn, allowedIn, validation,
                   pageIn, perPageIn, config, limits, storageCalls, thrown,
                   data, result, response,
                   sortBy, sortOrder, orderBy, matching,
                   users, calls>>

\* filter.search_by on a null entry: TypeError out of buildSearchQuery
BuildThrow ==
    /\ pc = "build"
    /\ idx < Len(filters)
    /\ filters[idx + 1].nil
    /\ pc' = "threw"
    /\ UNCHANGED <<filters, allowedFields, filtersIn, allowedIn, validation, idx,
                   wheres, diagnostics, pageIn, perPageIn, config, limits,
                   storageCalls, thrown, data, result, response,
                   sortBy, sortOrder, orderBy, matching,
                   users, calls>>

\* return queryBuilder
BuildReturn ==
    /\ pc = "build"
    /\ idx = Len(filters)
    /\ pc' = "built"
    /\ UNCHANGED <<filters, allowedFields, filtersIn, allowedIn, validation, idx,
                   wheres, diagnostics, pageIn, perPageIn, config, limits,
                   storageCalls, thrown, data, result, response,
                   sortBy, sortOrder, orderBy, matching,
                   users, calls>>

NextFilters == Validate \/ BuildIteration \/ BuildThrow \/ BuildReturn

SpecFilters == InitFilters /\ [][NextFilters]_vars

----------------------------------------------------------------------------
(* Specification of getPaginationLimits on one pagination request *)

InitLimits ==
    /\ pc = "start"
    /\ pageIn \in PageValues
    /\ perPageIn \in PerPageValues
    /\ config \in ConfigValues
    /\ limits = NoLimits
    /\ filters = <<>>
    /\ allowedFields = UsersAllowedFields
    /\ filtersIn = filters
    /\ allowedIn = allowedFields
    /\ validation = NoValidation
    /\ idx = 0
    /\ wheres = <<>>
    /\ diagnostics = <<>>
    /\ storageCalls = 0
    /\ thrown = NoError
    /\ data = NoData
    /\ result = NoResult
    /\ response = NoResponse
    /\ sortBy = None
    /\ sortOrder = None
    /\ orderBy = NoOrderBy
    /\ matching = 0
    /\ users = NoUsers
    /\ calls = NoCalls

\* PaginationHelper.getPaginationLimits(paginationDto, configService)
GetPaginationLimits ==
    /\ pc = "start"
    /\ limits' = getPaginationLimits(pageIn, perPageIn, config)
    /\ pc' = "limits"
    /\ UNCHANGED <<filters, allowedFields, filtersIn, allowedIn, validation, idx,
                   wheres, diagnostics, pageIn, perPageIn, config, storageCalls,
                   thrown, data, result, response,
                   sortBy, sortOrder, orderBy, matching,
                   users, calls>>

NextLimits == GetPaginationLimits

SpecLimits == InitLimits /\ [][NextLimits]_vars

----------------------------------------------------------------------------
(* Specification of the metadata functions on one (total, page, limit):    *)
(* PaginationHelper.calculateMeta and PaginationHelper.paginateWithTypeORM *)

\* rows of the window (offset, limit) over count matching rows
WindowRows(count, offset, limit) ==
    (IF count - offset < 0 THEN 0
     ELSE IF count - offset < limit THEN count - offset ELSE limit) \div Scale

\* paginateWithTypeORM after getManyAndCount resolved with total rows counted
paginateWithTypeORM(total, page, perPage, cfg) ==
    LET l == getPaginationLimits(page, perPage, cfg)
    IN  [rows |-> WindowRows(total, l.offset, l.limit),
         count |-> total,
         meta |-> [totalPages |-> CeilDiv(total, l.limit),
                   currentPage |-> l.page,
                   perPage |-> l.limit,
                   from |-> IF total > 0 THEN l.offset + Scale ELSE 0,
                   to |-> Min(l.offset + l.limit, total)]]

\* page arguments: absent, NaN, or a multiple of 1/Scale from 0 to MaxPage + 1
MetaPageValues ==
    {None, Some(NaN)} \cup {Some(Num(v)) : v \in 0..((MaxPage + 1) * Scale)}

\* limit arguments: absent, or a whole number from 1 to MaxLimit
MetaLimitValues == {None} \cup {Some(Whole(n)) : n \in 1..MaxLimit}

InitMeta ==
    /\ pc = "start"
    /\ matching \in 0..MaxRows
    /\ users = NoUsers
    /\ calls = NoCalls
    /\ pageIn \in MetaPageValues
    /\ perPageIn \in MetaLimitValues
    /\ config = None
    /\ limits = NoLimits
    /\ filters = <<>>
    /\ allowedFields = UsersAllowedFields
    /\ filtersIn = filters
    /\ allowedIn = allowedFields
    /\ validation = NoValidation
    /\ idx = 0
    /\ wheres = <<>>
    /\ diagnostics = <<>>
    /\ storageCalls = 0
    /\ thrown = NoError
    /\ data = NoData
    /\ result = NoResult
    /\ response = NoResponse
    /\ sortBy = None
    /\ sortOrder = None
    /\ orderBy = NoOrderBy

\* PaginationHelper.calculateMeta(total, page, limit) on numbers
CalculateMeta ==
    /\ pc = "start"
    /\ pageIn # None /\ ~pageIn[1].nan
    /\ perPageIn # None
    /\ result' = [rows |-> 0, count |-> matching * Scale,
                  meta |-> calculateMeta(matching * Scale, pageIn[1].v,
                                         perPageIn[1].v)]
    /\ pc' = "meta"
    /\ UNCHANGED <<filters, allowedFields, filtersIn, allowedIn, validation, idx,
                   wheres, diagnostics, pageIn, perPageIn, config, limits,
                   storageCalls, thrown, data, response,
                   sortBy, sortOrder, orderBy, matching,
                   users, calls>>

\* PaginationHelper.paginateWithTypeORM(queryBuilder, paginationDto)
PaginateWithTypeORM ==
    /\ pc = "start"
    /\ limits' = getPaginationLimits(pageIn, perPageIn, config)
    /\ storageCalls' = storageCalls + 1
    /\ LET r == paginateWithTypeORM(matching * Scale, pageIn, perPageIn, config)
       IN  /\ data' = [rows |-> r.rows, count |-> r.count]
           /\ result' = r
    /\ pc' = "paginated"
    /\ UNCHANGED <<filters, allowedFields, filtersIn, allowedIn, validation, idx,
                   wheres, diagnostics, pageIn, perPageIn, config, thrown,
                   response, sortBy, sortOrder, orderBy, matching,
                   users, calls>>

NextMeta == CalculateMeta \/ PaginateWithTypeORM

SpecMeta == InitMeta /\ [][NextMeta]_vars

----------------------------------------------------------------------------
(* Specification of buildSortQuery on one (sort_by, sort_order) *)

SortByValues ==
    {None, Some(<<>>), Some(<<" ">>), Some(<<"NaN">>), Some(<<"undefined">>),
     Some(<<"null">>), Some(<<"name">>), Some(<<"createdAt">>), Some(<<"secret">>)}

SortOrderValues ==
    {None, Some(<<>>), Some(<<"a", "s", "c">>), Some(<<"d", "e", "s", "c">>),
     Some(ASC), Some(DESC), Some(<<"A", "s", "c">>), Some(<<"D", "e", "s", "c">>),
     Some(<<"d", "E", "S", "C">>), Some(<<"x">>)}

\* the sortable fields the request DTO documents, and a list that holds a
\* sentinel token and a blank name
AllowedSortChoices ==
    {<< <<"name">>, <<"email">>, <<"createdAt">>, <<"id">> >>,
     << <<"name">>, <<"null">>, <<" ">> >>}

InitSort ==
    /\ pc = "start"
    /\ sortBy \in SortByValues
    /\ sortOrder \in SortOrderValues
    /\ allowedFields \in AllowedSortChoices
    /\ orderBy = NoOrderBy
    /\ filters = <<>>
    /\ filtersIn = filters
    /\ allowedIn = allowedFields
    /\ validation = NoValidation
    /\ idx = 0
    /\ wheres = <<>>
    /\ diagnostics = <<>>
    /\ pageIn = None
    /\ perPageIn = None
    /\ config = None
    /\ limits = NoLimits
    /\ storageCalls = 0
    /\ thrown = NoError
    /\ data = NoData
    /\ result = NoResult
    /\ response = NoResponse
    /\ matching = 0
    /\ users = NoUsers
    /\ calls = NoCalls

\* SearchHelper.buildSortQuery(queryBuilder, query, allowedSortFields)
BuildSort ==
    /\ pc = "start"
    /\ orderBy' = buildSortQuery(sortBy, sortOrder, allowedFields, "entity")
    /\ pc' = "sorted"
    /\ UNCHANGED <<filters, allowedFields, filtersIn, allowedIn, validation, idx,
                   wheres, diagnostics, pageIn, perPageIn, config, limits,
                   storageCalls, thrown, data, result, response, sortBy,
                   sortOrder, matching,
                   users, calls>>

NextSort == BuildSort

SpecSort == InitSort /\ [][NextSort]_vars

----------------------------------------------------------------------------
(* Specification of one request to POST users/paginated:                   *)
(* UsersController.getPaginatedUsers -> UsersService.findAllWithPagination *)
(* -> UsersDao.getUsersWithPagination                                      *)

\* filters a request body carries
RequestFilters ==
    {MkFilter(Some(<<"name">>), "equal", Some(<<"x">>), None, None, None),
     MkFilter(Some(<<"createdAt">>), "between", None, Some(<<"5">>), Some(<<"5">>), None),
     MkFilter(Some(<<"email">>), "json_extract", Some(<<"x">>), None, None, None),
     MkFilter(Some(<<"secret">>), "equal", Some(<<"x">>), None, None, None),
     MkFilter(Some(<<"a", ",", "b">>), "is_null", None, None, None, None),
     MkFilter(Some(<<"name">>), "like", None, None, None, None),
     MkFilter(Some(<<"name">>), "bogus", Some(<<"x">>), None, None, None),
     NullFilter}

RequestPerPageValues ==
    {None, Some(NaN), Some(Whole(1)), Some(Whole(2)), Some(Whole(MaxPerPage))}

\* largest number of rows the filtered query matches
MaxTotal == 5

\* the literal allow-list UsersDao passes to buildWhereClause
DaoAllowedFields ==
    << <<"id">>, <<"name">>, <<"email">>, <<"createdAt">>, <<"updatedAt">> >>

NoSort == [by |-> None, order |-> None]

\* sort_by and sort_order of a request; the sort varies on requests without
\* filters, and sort_order is absent or a spelling of asc / desc
RequestSorts ==
    {NoSort,
     [by |-> Some(<<"name">>), order |-> None],
     [by |-> Some(<<"name">>), order |-> Some(<<"a", "s", "c">>)],
     [by |-> Some(<<"email">>), order |-> Some(<<"D", "e", "s", "c">>)],
     [by |-> Some(<<"secret">>), order |-> Some(DESC)],
     [by |-> None, order |-> Some(<<"a", "s", "c">>)]}

\* paginationDto.filters absent and [] take the same path: no error, no predicate
Init ==
    /\ pc = "request"
    /\ \E n \in 0..MaxFilters : filters \in [1..n -> RequestFilters]
    /\ pageIn \in PageValues
    /\ perPageIn \in RequestPerPageValues
    /\ matching \in 0..MaxTotal
    /\ users = NoUsers
    /\ calls = NoCalls
    /\ \E so \in RequestSorts :
          /\ sortBy = so.by
          /\ sortOrder = so.order
          /\ (filters # <<>> => so = NoSort)
    /\ config = None
    /\ allowedFields = UsersAllowedFields
    /\ filtersIn = filters
    /\ allowedIn = allowedFields
    /\ validation = NoValidation
    /\ idx = 0
    /\ wheres = <<>>
    /\ diagnostics = <<>>
    /\ limits = NoLimits
    /\ storageCalls = 0
    /\ thrown = NoError
    /\ data = NoData
    /\ result = NoResult
    /\ response = NoResponse
    /\ orderBy = NoOrderBy

TypeErrorMessage ==
    <<"Cannot", " ", "read", " ", "properties", " ", "of", " ", "null">>

InvalidFiltersMessage(errors) ==
    <<"Invalid", " ", "filters:", " ">> \o JoinCommaSpace(errors)

\* findAllWithPagination, "Validate filters": no error, go on
ServiceValidateOk ==
    /\ pc = "request"
    /\ LET v == validateFilters(filters, UsersAllowedFields)
       IN  /\ ~v.threw /\ v.errors = <<>>
           /\ validation' = v
    /\ pc' = "validated"
    /\ UNCHANGED <<filters, allowedFields, filtersIn, allowedIn, idx, wheres,
                   diagnostics, pageIn, perPageIn, config, limits, storageCalls,
                   thrown, data, result, response,
                   sortBy, sortOrder, orderBy, matching,
                   users, calls>>

\* variant of ServiceValidateReject: the error list is computed but not thrown
ServiceValidateRejectIgnored ==
    /\ pc = "request"
    /\ LET v == validateFilters(filters, UsersAllowedFields)
       IN  /\ ~v.threw /\ Len(v.errors) > 0
           /\ validation' = v
    /\ pc' = "validated"
    /\ UNCHANGED <<filters, allowedFields, filtersIn, allowedIn, idx, wheres,
                   diagnostics, pageIn, perPageIn, config, limits, storageCalls,
                   thrown, data, result, response,
                   sortBy, sortOrder, orderBy, matching,
                   users, calls>>

\* findAllWithPagination, "Validate filters": throw BadRequestException
ServiceValidateReject ==
    /\ pc = "request"
    /\ LET v == validateFilters(filters, UsersAllowedFields)
       IN  /\ ~v.threw /\ Len(v.errors) > 0
           /\ validation' = v
           /\ thrown' = [name |-> "BadRequestException",
                          message |-> InvalidFiltersMessage(v.errors)]
    /\ pc' = "caught"
    /\ UNCHANGED <<filters, allowedFields, filtersIn, allowedIn, idx, wheres,
                   diagnostics, pageIn, perPageIn, config, limits, storageCalls,
                   data, result, response,
                   sortBy, sortOrder, orderBy, matching,
                   users, calls>>

\* findAllWithPagination: validateFilters itself throws on a null entry
ServiceValidateThrow ==
    /\ pc = "request"
    /\ LET v == validateFilters(filters, UsersAllowedFields)
       IN  /\ v.threw
           /\ validation' = v
           /\ thrown' = [name |-> "TypeError", message |-> TypeErrorMessage]
    /\ pc' = "caught"
    /\ UNCHANGED <<filters, allowedFields, filtersIn, allowedIn, idx, wheres,
                   diagnostics, pageIn, perPageIn, config, limits, storageCalls,
                   data, result, response,
                   sortBy, sortOrder, orderBy, matching,
                   users, calls>>

\* findAllWithPagination, "Get pagination limits", and the DAO's query
\* builder up to the call of buildWhereClause with the DAO's allow-list
ServiceLimits ==
    /\ pc = "validated"
    /\ limits' = getPaginationLimits(pageIn, perPageIn, None)
    /\ allowedFields' = DaoAllowedFields
    /\ idx' = 0
    /\ wheres' = <<>>
    /\ pc' = "build"
    /\ UNCHANGED <<filters, filtersIn, allowedIn, validation, diagnostics, pageIn,
                   perPageIn, config, storageCalls, thrown, data, result, response,
                   sortBy, sortOrder, orderBy, matching,
                   users, calls>>

\* rows of the window (offset, limit) over count matching rows
RowsInWindow(count, offset, limit) == Max(0, Min(limit, count - offset)) \div Scale

\* variant of DaoExecute: the count is taken over the page of rows
DaoExecuteCountsPage ==
    /\ pc = "built"
    /\ orderBy' = DaoOrderBy(ServiceSortField(sortBy), ServiceSortOrder(sortOrder))
    /\ storageCalls' = storageCalls + 1
    /\ data' = [rows |-> RowsInWindow(matching * Scale, limits.offset, limits.limit),
                count |-> RowsInWindow(matching * Scale, limits.offset, limits.limit)
                             * Scale]
    /\ pc' = "fetched"
    /\ UNCHANGED <<filters, allowedFields, filtersIn, allowedIn, validation, idx,
                   wheres, diagnostics, pageIn, perPageIn, config, limits, thrown,
                   result, response, sortBy, sortOrder, matching,
                   users, calls>>

\* getUsersWithPagination: orderBy, skip, take, getManyAndCount succeeds
DaoExecute ==
    /\ pc = "built"
    /\ orderBy' = DaoOrderBy(ServiceSortField(sortBy), ServiceSortOrder(sortOrder))
    /\ storageCalls' = storageCalls + 1
    /\ data' = [rows |-> RowsInWindow(matching * Scale, limits.offset, limits.limit),
                count |-> matching * Scale]
    /\ pc' = "fetched"
    /\ UNCHANGED <<filters, allowedFields, filtersIn, allowedIn, validation, idx,
                   wheres, diagnostics, pageIn, perPageIn, config, limits, thrown,
                   result, response, sortBy, sortOrder, matching,
                   users, calls>>

QueryFailedMessage == <<"connection", " ", "terminated">>

\* errors getManyAndCount rejects with: a failed query, or a driver error
\* without a message
StorageErrors ==
    {[name |-> "QueryFailedError", message |-> QueryFailedMessage],
     [name |-> "Error", message |-> <<>>]}

\* variant of DaoExecuteFail: the rejected query is run a second time
DaoExecuteFailRetried ==
    /\ pc = "built"
    /\ storageCalls' = storageCalls + 2
    /\ orderBy' = DaoOrderBy(ServiceSortField(sortBy), ServiceSortOrder(sortOrder))
    /\ thrown' \in StorageErrors
    /\ pc' = "caught"
    /\ UNCHANGED <<filters, allowedFields, filtersIn, allowedIn, validation, idx,
                   wheres, diagnostics, pageIn, perPageIn, config, limits, data,
                   result, response, sortBy, sortOrder, matching,
                   users, calls>>

\* getUsersWithPagination: getManyAndCount rejects; the service's catch
\* rethrows the error
DaoExecuteFail ==
    /\ pc = "built"
    /\ storageCalls' = storageCalls + 1
    /\ orderBy' = DaoOrderBy(ServiceSortField(sortBy), ServiceSortOrder(sortOrder))
    /\ thrown' \in StorageErrors
    /\ pc' = "caught"
    /\ UNCHANGED <<filters, allowedFields, filtersIn, allowedIn, validation, idx,
                   wheres, diagnostics, pageIn, perPageIn, config, limits, data,
                   result, response, sortBy, sortOrder, matching,
                   users, calls>>

\* findAllWithPagination, "Calculate metadata" and the returned object
ServiceReturn ==
    /\ pc = "fetched"
    /\ LET meta == calculateMeta(data.count, limits.page, limits.limit)
       IN  result' =
             [rows |-> data.rows, count |-> data.count,
              meta |-> [meta EXCEPT
                 !.from = Times(meta.currentPage - Scale, meta.perPage) + Scale,
                 !.to = Min(Times(meta.currentPage, meta.perPage), data.count)]]
    /\ pc' = "result"
    /\ UNCHANGED <<filters, allowedFields, filtersIn, allowedIn, validation, idx,
                   wheres, diagnostics, pageIn, perPageIn, config, limits,
                   storageCalls, thrown, data, response,
                   sortBy, sortOrder, orderBy, matching,
                   users, calls>>

\* getPaginatedUsers: ResponseHelper.paginateWithMeta
ControllerRespond ==
    /\ pc = "result"
    /\ response' = paginateWithMeta(SUCCESS, result.rows, result.count,
          [result.meta EXCEPT
             !.from = Times(result.meta.currentPage - Scale, result.meta.perPage)
                          + Scale,
             !.to = Min(Times(result.meta.currentPage, result.meta.perPage),
                        result.count)])
    /\ pc' = "done"
    /\ UNCHANGED <<filters, allowedFields, filtersIn, allowedIn, validation, idx,
                   wheres, diagnostics, pageIn, perPageIn, config, limits,
                   storageCalls, thrown, data, result,
                   sortBy, sortOrder, orderBy, matching,
                   users, calls>>

\* getPaginatedUsers: catch (error) { return ErrorHandlerHelper.handleError }
ControllerCatch ==
    /\ pc = "caught"
    /\ response' = handleError(thrown)
    /\ pc' = "done"
    /\ UNCHANGED <<filters, allowedFields, filtersIn, allowedIn, validation, idx,
                   wheres, diagnostics, pageIn, perPageIn, config, limits,
                   storageCalls, thrown, data, result,
                   sortBy, sortOrder, orderBy, matching,
                   users, calls>>

Next ==
    \/ ServiceValidateOk
    \/ ServiceValidateReject
    \/ ServiceValidateThrow
    \/ ServiceLimits
    \/ BuildIteration
    \/ BuildReturn
    \/ DaoExecute
    \/ DaoExecuteFail
    \/ ControllerRespond
    \/ ServiceReturn
    \/ ControllerCatch

Spec == Init /\ [][Next]_vars

----------------------------------------------------------------------------
(* Specification of the users table under concurrent UsersService calls.    *)
(* Every await of a service method is a step of its own, so the calls of   *)
(* different callers interleave between their queries.  A caller whose     *)
(* call has returned may make another call.                                *)

Emails == {"a", "b"}
Ids == 1..MaxUsers

requestVars == <<pc, filters, allowedFields, filtersIn, allowedIn, validation,
                 idx, wheres, diagnostics, pageIn, perPageIn, config, limits,
                 storageCalls, thrown, data, result, response, sortBy,
                 sortOrder, orderBy, matching>>

\* where: { deletedAt: IsNull() }
NonDeleted == {i \in 1..Len(users) : ~users[i].deleted}

\* UsersDao.findAll
findAll == NonDeleted

\* variant of findById: the row is looked up whatever its deletedAt
findByIdAnyRow(id) == IF id \in 1..Len(users) THEN {id} ELSE {}

\* UsersDao.findById: the row or null, as a set of at most one id
findById(id) == IF id \in NonDeleted THEN {id} ELSE {}

\* UsersDao.findByEmail: the rows findOne chooses from
findByEmail(email) == {i \in NonDeleted : users[i].email = email}

\* UsersDao.existsByEmail
existsByEmail(email, excludeId) ==
    \E i \in NonDeleted : users[i].email = email /\ i # excludeId

\* a row of any deletedAt holds the email: a unique index of the table, if
\* the entity declares one, refuses another
EmailTaken(email, exceptId) ==
    \E i \in 1..Len(users) : users[i].email = email /\ i # exceptId

Free(p) == calls[p].pc \in {"idle", "done"}

Begin(op, id, email) == [Idle EXCEPT !.op = op, !.id = id, !.email = email]

Return(c, outcome, rows) ==
    [c EXCEPT !.pc = "done", !.outcome = outcome, !.result = rows]

At(p, op, at) == calls[p].op = op /\ calls[p].pc = at

InitUsers ==
    /\ pc = "users"
    /\ users = NoUsers
    /\ calls = NoCalls
    /\ sortBy = None
    /\ sortOrder = None
    /\ allowedFields = <<>>
    /\ orderBy = NoOrderBy
    /\ filters = <<>>
    /\ filtersIn = filters
    /\ allowedIn = allowedFields
    /\ validation = NoValidation
    /\ idx = 0
    /\ wheres = <<>>
    /\ diagnostics = <<>>
    /\ pageIn = None
    /\ perPageIn = None
    /\ config = None
    /\ limits = NoLimits
    /\ storageCalls = 0
    /\ thrown = NoError
    /\ data = NoData
    /\ result = NoResult
    /\ response = NoResponse
    /\ matching = 0

\* UsersService.findAll
FindAll(p) ==
    /\ Free(p)
    /\ calls' = [calls EXCEPT ![p] = Return(Begin("findAll", 0, None), "ok", findAll)]
    /\ UNCHANGED <<users, requestVars>>

\* UsersService.findById
FindById(p) ==
    /\ Free(p)
    /\ \E id \in Ids :
          calls' = [calls EXCEPT ![p] =
                       IF findById(id) = {}
                       THEN Return(Begin("findById", id, None), "not_found", {})
                       ELSE Return(Begin("findById", id, None), "ok", findById(id))]
    /\ UNCHANGED <<users, requestVars>>

\* UsersService.findByEmail: findOne returns one of the rows, or null
FindByEmail(p) ==
    /\ Free(p)
    /\ \E email \in Emails :
          \E rows \in (IF findByEmail(email) = {} THEN {{}}
                       ELSE {{i} : i \in findByEmail(email)}) :
             calls' = [calls EXCEPT ![p] =
                          Return(Begin("findByEmail", 0, Some(email)), "ok", rows)]
    /\ UNCHANGED <<users, requestVars>>

\* UsersDao.getUsersWithPagination: 'user.deletedAt IS NULL', narrowed by the
\* filters (andWhere) and the window (skip, take)
GetUsersWithPagination(p) ==
    /\ Free(p)
    /\ \E rows \in SUBSET NonDeleted :
          calls' = [calls EXCEPT ![p] =
                       Return(Begin("paginated", 0, None), "ok", rows)]
    /\ UNCHANGED <<users, requestVars>>

\* UsersService.create, up to the end of `await this.usersDao.findByEmail`
CreateFind(p) ==
    /\ Free(p)
    \* the table has room for the rows of the creates in progress and this one
    /\ Len(users) + Cardinality({q \in Procs : At(q, "create", "save")}) < MaxUsers
    /\ \E email \in Emails :
          calls' = [calls EXCEPT ![p] =
                       IF findByEmail(email) # {}
                       THEN Return(Begin("create", 0, Some(email)), "conflict", {})
                       ELSE [Begin("create", 0, Some(email)) EXCEPT !.pc = "save"]]
    /\ UNCHANGED <<users, requestVars>>

\* UsersService.create: bcrypt.hash, then UsersDao.create saves the row
CreateSave(p) ==
    /\ At(p, "create", "save")
    /\ users' = Append(users, [email |-> calls[p].email[1], deleted |-> FALSE])
    /\ calls' = [calls EXCEPT ![p] = Return(calls[p], "ok", {Len(users) + 1})]
    /\ UNCHANGED requestVars

\* UsersDao.create: save rejects with QueryFailedError
CreateSaveRefused(p) ==
    /\ At(p, "create", "save")
    /\ EmailTaken(calls[p].email[1], 0)
    /\ calls' = [calls EXCEPT ![p] = Return(calls[p], "query_failed", {})]
    /\ UNCHANGED <<users, requestVars>>

\* UsersService.update, up to the end of `await this.usersDao.findById`; the
\* test of updateUserDto.email follows without an await
UpdateFind(p) ==
    /\ Free(p)
    /\ \E id \in Ids : \E email \in {None} \cup {Some(e) : e \in Emails} :
          LET c == Begin("update", id, email)
          IN  calls' = [calls EXCEPT ![p] =
                  IF findById(id) = {}
                  THEN Return(c, "not_found", {})
                  ELSE IF email # None /\ email[1] # users[id].email
                  THEN [c EXCEPT !.pc = "exists"]
                  ELSE [c EXCEPT !.pc = "write"]]
    /\ UNCHANGED <<users, requestVars>>

\* UsersService.update: `await this.usersDao.existsByEmail(email, id)`
UpdateExists(p) ==
    /\ At(p, "update", "exists")
    /\ calls' = [calls EXCEPT ![p] =
                    IF existsByEmail(calls[p].email[1], calls[p].id)
                    THEN Return(calls[p], "conflict", {})
                    ELSE [calls[p] EXCEPT !.pc = "write"]]
    /\ UNCHANGED <<users, requestVars>>

\* UsersDao.update: `await this.usersRepository.update(id, updateUserDto)`
UpdateWrite(p) ==
    /\ At(p, "update", "write")
    /\ users' = IF calls[p].email # None
                THEN [users EXCEPT ![calls[p].id].email = calls[p].email[1]]
                ELSE users
    /\ calls' = [calls EXCEPT ![p].pc = "reread"]
    /\ UNCHANGED requestVars

\* UsersDao.update: usersRepository.update rejects with QueryFailedError
UpdateWriteRefused(p) ==
    /\ At(p, "update", "write")
    /\ calls[p].email # None
    /\ EmailTaken(calls[p].email[1], calls[p].id)
    /\ calls' = [calls EXCEPT ![p] = Return(calls[p], "query_failed", {})]
    /\ UNCHANGED <<users, requestVars>>

\* UsersDao.update: `return this.findById(id)`, and the service's test of it
UpdateReread(p) ==
    /\ At(p, "update", "reread")
    /\ calls' = [calls EXCEPT ![p] =
                    IF findById(calls[p].id) = {}
                    THEN Return(calls[p], "not_found", {})
                    ELSE Return(calls[p], "ok", findById(calls[p].id))]
    /\ UNCHANGED <<users, requestVars>>

\* UsersService.delete, up to the end of `await this.usersDao.findById`
DeleteFind(p) ==
    /\ Free(p)
    /\ \E id \in Ids :
          calls' = [calls EXCEPT ![p] =
                       IF findById(id) = {}
                       THEN Return(Begin("delete", id, None), "not_found", {})
                       ELSE [Begin("delete", id, None) EXCEPT !.pc = "remove"]]
    /\ UNCHANGED <<users, requestVars>>

\* UsersDao.delete: update(id, { deletedAt: new Date() }), affected > 0
DeleteWrite(p) ==
    /\ At(p, "delete", "remove")
    /\ IF calls[p].id \in 1..Len(users)
       THEN /\ users' = [users EXCEPT ![calls[p].id].deleted = TRUE]
            /\ calls' = [calls EXCEPT ![p] = Return(calls[p], "ok", {})]
       ELSE /\ users' = users
            /\ calls' = [calls EXCEPT ![p] = Return(calls[p], "bad_request", {})]
    /\ UNCHANGED requestVars

NextUsers ==
    \/ \E p \in Procs : FindAll(p)
    \/ \E p \in Procs : FindById(p)
    \/ \E p \in Procs : FindByEmail(p)
    \/ \E p \in Procs : GetUsersWithPagination(p)
    \/ \E p \in Procs : CreateFind(p)
    \/ \E p \in Procs : CreateSave(p)
    \/ \E p \in Procs : CreateSaveRefused(p)
    \/ \E p \in Procs : UpdateFind(p)
    \/ \E p \in Procs : UpdateExists(p)
    \/ \E p \in Procs : UpdateWrite(p)
    \/ \E p \in Procs : UpdateWriteRefused(p)
    \/ \E p \in Procs : UpdateReread(p)
    \/ \E p \in Procs : DeleteFind(p)
    \/ \E p \in Procs : DeleteWrite(p)

SpecUsers == InitUsers /\ [][NextUsers]_vars

----------------------------------------------------------------------------
(* Properties *)

\* the errors of a validation outcome that belong to the filter at position i
ErrorsAt(errors, i) ==
    SelectSeq(errors, LAMBDA e : Len(e) >= 5 /\ SubSeq(e, 1, 5) = FilterPrefix(i - 1))

\* the response names position i: one of its error strings holds "Filter i:"
NamesPosition(resp, i) ==
    \E k \in 1..Len(resp.error) :
        HasInfix(resp.error[k], <<"Filter", " ", Digits[i + 1], ":">>)

RejectedByValidation == ~validation.threw /\ Len(validation.errors) > 0

\* C1: a request whose filters give a non-empty validateFilters error list is
\* answered with a 4xx status and an error list that names every offending
\* filter by its 1-based position.
C1_ValidationFailureIs4xx ==
    (pc = "done" /\ RejectedByValidation) =>
        /\ response.status \in 400..499
        /\ \A i \in 1..Len(filters) :
              ErrorsAt(validation.errors, i) # <<>> => NamesPosition(response, i)

\* the part of C1 the code keeps: every offending position is named
C1_PositionsNamed ==
    (pc = "done" /\ RejectedByValidation) =>
        \A i \in 1..Len(filters) :
            ErrorsAt(validation.errors, i) # <<>> => NamesPosition(response, i)

\* C2: a request whose filters fail validation never reaches getManyAndCount,
\* and a request that passes validation invokes it exactly once.
C2_StorageOnceAfterValidation ==
    LET v == validateFilters(filtersIn, UsersAllowedFields)
    IN  /\ (v.threw \/ Len(v.errors) > 0) => storageCalls = 0
        /\ (~v.threw /\ v.errors = <<>>) =>
               /\ storageCalls <= 1
               /\ pc \in {"fetched", "result", "done"} => storageCalls = 1
               /\ pc \in {"request", "validated", "build", "built"} => storageCalls = 0

C2_Witness ==
    /\ pc = "done"
    /\ Len(filters) >= 1
    /\ storageCalls = 1
    /\ response.status = SUCCESS

----------------------------------------------------------------------------
(* Properties of validateFilters and buildSearchQuery *)

ClaimRangeOps == {"between", "not_between"}
ClaimListOps == {"in", "not_in", "array_overlap"}
ClaimNullOps == {"is_null", "is_not_null"}
ClaimSingleOps == FilterType \ (ClaimRangeOps \cup ClaimListOps \cup ClaimNullOps)

AbsentOrEmpty(o) == o = None \/ o = Some(<<>>)

\* the operand the operator's arity class requires is absent or empty
OperandMissing(f) ==
    \/ f.filter_type \in ClaimSingleOps /\ AbsentOrEmpty(f.search_query)
    \/ f.filter_type \in ClaimRangeOps
          /\ (AbsentOrEmpty(f.start_value) \/ AbsentOrEmpty(f.end_value))
    \/ f.filter_type \in ClaimListOps /\ AbsentOrEmpty(f.values_list)

\* the filter carries an operand its operator's arity class does not use
ExtraOperand(f) ==
    \/ f.filter_type \in ClaimSingleOps
          /\ ~(AbsentOrEmpty(f.start_value) /\ AbsentOrEmpty(f.end_value)
                   /\ AbsentOrEmpty(f.values_list))
    \/ f.filter_type \in ClaimRangeOps
          /\ ~(AbsentOrEmpty(f.search_query) /\ AbsentOrEmpty(f.values_list))
    \/ f.filter_type \in ClaimListOps
          /\ ~(AbsentOrEmpty(f.search_query) /\ AbsentOrEmpty(f.start_value)
                   /\ AbsentOrEmpty(f.end_value))
    \/ f.filter_type \in ClaimNullOps
          /\ ~(AbsentOrEmpty(f.search_query) /\ AbsentOrEmpty(f.start_value)
                   /\ AbsentOrEmpty(f.end_value) /\ AbsentOrEmpty(f.values_list))

FieldNotAllowed(f) == f.search_by = None \/ ~Includes(allowedFields, f.search_by[1])

SentinelField(f) ==
    f.search_by \in {None, Some(<<>>), Some(<<"NaN">>), Some(<<"undefined">>),
                     Some(<<"null">>)}

Holds(e, atom) == \E k \in 1..Len(e) : e[k] = atom

ArityErrorsAt(errors, i) ==
    SelectSeq(ErrorsAt(errors, i), LAMBDA e : Holds(e, "required"))

NotAllowedErrorsAt(errors, i) ==
    SelectSeq(ErrorsAt(errors, i),
              LAMBDA e : HasInfix(e, <<"allowed", " ", "search", " ", "field">>))

QuotedField(f) == <<"'">> \o Render(f.search_by) \o <<"'">>

\* validateFilters has returned its list
Validated == pc # "start" /\ ~validation.threw

\* buildSearchQuery is processing the filter at 0-based position idx
Compiling == pc = "build" /\ idx < Len(filters) /\ ~filters[idx + 1].nil

C3_FieldsOfPredicates ==
    \A k \in 1..Len(wheres) :
        LET f == filters[wheres[k].index + 1]
        IN  /\ ~SentinelField(f)
            /\ Includes(allowedFields, f.search_by[1])
            /\ wheres[k].fieldName = <<"user", ".">> \o f.search_by[1]

C3_OtherFieldsAddNothing ==
    [][(Compiling /\ (FieldNotAllowed(filters[idx + 1])
                        \/ SentinelField(filters[idx + 1])))
          => wheres' = wheres]_vars

C3_EarlierPredicatesKept ==
    [][Compiling => (Len(wheres') >= Len(wheres)
                       /\ SubSeq(wheres', 1, Len(wheres)) = wheres)]_vars

\* C3: every field reference buildSearchQuery puts into predicate text is
\* alias.f with f in allowedFields and f no sentinel token; a filter on any
\* other field adds no predicate and no bind parameter, and no iteration
\* changes the predicates appended before it.
C3_OnlyAllowedFields ==
    /\ []C3_FieldsOfPredicates
    /\ C3_OtherFieldsAddNothing
    /\ C3_EarlierPredicatesKept

C3_Witness ==
    /\ pc = "built"
    /\ Len(filters) = 2
    /\ Len(wheres) = 1
    /\ \E i \in 1..2 :
          /\ filters[i].search_by = Some(<<"null">>)
          /\ filters[i].filter_type = "is_null"
          /\ Includes(allowedFields, <<"null">>)

ValidationPassed == Validated /\ validation.errors = <<>>

PredicatesOf(i) == {k \in 1..Len(wheres) : wheres[k].index = i - 1}

InInputOrder == \A k \in 1..(Len(wheres) - 1) : wheres[k].index < wheres[k + 1].index

\* C4 as stated: for every filter list validateFilters accepts,
\* buildSearchQuery appends exactly one predicate per filter, in input order.
C4_OnePredicatePerFilter ==
    (pc = "built" /\ ValidationPassed) =>
        /\ \A i \in 1..Len(filters) : Cardinality(PredicatesOf(i)) = 1
        /\ InInputOrder

ParsesAsJson(s) == \E d \in JsonDocuments : Trim(s) = <<d>>

\* filters buildSearchQuery never turns into a predicate although valid
NotCompiled(f) ==
    \/ f.filter_type \in {"json_extract", "json_extract_text"}
    \/ f.filter_type \in {"json_contains", "json_contained"}
          /\ ~ParsesAsJson(f.search_query[1])
    \/ SentinelField(f)
    \/ Trim(f.search_by[1]) = <<>>

\* C4 as amended: for every filter list validateFilters accepts,
\* buildSearchQuery appends, in input order, exactly one predicate for every
\* filter, except that it appends none for a path-extraction filter, for a
\* JSON containment filter whose search_query does not parse, and for a
\* filter whose field name is a sentinel token or blank.
C4_OnePredicatePerCompiledFilter ==
    (pc = "built" /\ ValidationPassed) =>
        /\ \A i \in 1..Len(filters) :
              Cardinality(PredicatesOf(i)) = IF NotCompiled(filters[i]) THEN 0 ELSE 1
        /\ InInputOrder

C4_Witness ==
    /\ pc = "built"
    /\ ValidationPassed
    /\ Len(filters) = 2
    /\ Len(wheres) = 2
    /\ \E i \in 1..2 : filters[i].filter_type = "array_contains"

\* C5 as stated: a filter whose search_by is not in allowedFields gets exactly
\* one error, and that error holds its 1-based position and the field name.
C5_ExactlyOneError ==
    Validated =>
        \A i \in 1..Len(filters) :
            FieldNotAllowed(filters[i]) =>
                /\ Len(ErrorsAt(validation.errors, i)) = 1
                /\ HasInfix(ErrorsAt(validation.errors, i)[1], QuotedField(filters[i]))

\* C5 as amended: a filter whose search_by is not in allowedFields gets exactly
\* one not-an-allowed-search-field error, which holds its 1-based position and
\* the field name; it gets one more error exactly when its required operand
\* is missing or its filter type is unknown.
C5_ExactlyOneFieldError ==
    Validated =>
        \A i \in 1..Len(filters) :
            FieldNotAllowed(filters[i]) =>
                /\ Len(NotAllowedErrorsAt(validation.errors, i)) = 1
                /\ HasInfix(NotAllowedErrorsAt(validation.errors, i)[1],
                            QuotedField(filters[i]))
                /\ Len(ErrorsAt(validation.errors, i)) =
                       IF OperandMissing(filters[i])
                            \/ filters[i].filter_type \notin FilterType
                       THEN 2 ELSE 1

C5_Witness ==
    /\ Validated
    /\ Len(filters) = 2
    /\ filters[2].search_by = Some(<<"secret">>)
    /\ filters[2].filter_type = "like"
    /\ filters[2].search_query = None
    /\ Len(ErrorsAt(validation.errors, 2)) = 2

\* C6: validateFilters reports a positional arity error for a filter exactly
\* when its required operand is absent or empty (search_query for single-value
\* operators, start_value or end_value for range operators, values_list for
\* list operators); null-check operators never get one.
C6_ArityErrorIffOperandMissing ==
    Validated =>
        \A i \in 1..Len(filters) :
            /\ ArityErrorsAt(validation.errors, i) # <<>> <=> OperandMissing(filters[i])
            /\ Len(ArityErrorsAt(validation.errors, i)) <= 1
            /\ filters[i].filter_type \in ClaimNullOps
                   => ArityErrorsAt(validation.errors, i) = <<>>

C6_Witness ==
    /\ Validated
    /\ Len(filters) = 2
    /\ filters[2].filter_type = "between"
    /\ filters[2].start_value = Some(<<"5">>)
    /\ filters[2].end_value = None
    /\ Len(ArityErrorsAt(validation.errors, 2)) = 1

\* C7: a filter that carries operands beyond those its operator's arity class
\* requires is reported by validateFilters as a validation error.
C7_ExtraOperandsRejected ==
    Validated =>
        \A i \in 1..Len(filters) :
            ExtraOperand(filters[i]) => ErrorsAt(validation.errors, i) # <<>>

\* C8: validateFilters returns a list of messages for every input list,
\* null entries included, without throwing, and leaves filters and
\* allowedFields unchanged.
C8_NeverThrowsNorMutates ==
    pc # "start" =>
        /\ ~validation.threw
        /\ filters = filtersIn
        /\ allowedFields = allowedIn

\* the part of C8 the code keeps: the arguments are left unchanged
C8_ArgumentsUnchanged == filters = filtersIn /\ allowedFields = allowedIn

----------------------------------------------------------------------------
(* Properties of getPaginationLimits; numbers in units of 1/Scale *)

\* the input is absent, NaN or less than 1
Unusable(o) == o = None \/ o[1].nan \/ o[1].v < Scale

IsInteger(x) == x % Scale = 0

\* r is the greatest integer not above x
IsFloorOf(r, x) == IsInteger(r) /\ r <= x /\ x < r + Scale

Clamp(x, lo, hi) == IF x < lo THEN lo ELSE IF x > hi THEN hi ELSE x

\* the page sizes in force: the configured ones, else 10 and 100
DefaultSizeInForce ==
    IF config # None /\ config[1].defaultPageSize # None
    THEN config[1].defaultPageSize[1].v ELSE 10 * Scale

MaxSizeInForce ==
    IF config # None /\ config[1].maxPageSize # None
    THEN config[1].maxPageSize[1].v ELSE 100 * Scale

\* C9: for a page that is absent, NaN or less than 1, getPaginationLimits
\* returns page 1; for every other page it returns floor(page); the returned
\* page is always an integer >= 1.
C9_PageNormalized ==
    pc = "limits" =>
        /\ Unusable(pageIn) => limits.page = Scale
        /\ ~Unusable(pageIn) => IsFloorOf(limits.page, pageIn[1].v)
        /\ IsInteger(limits.page)
        /\ limits.page >= Scale

C9_Witness ==
    /\ pc = "limits"
    /\ pageIn # None
    /\ ~pageIn[1].nan
    /\ pageIn[1].v > 2 * Scale
    /\ ~IsInteger(pageIn[1].v)
    /\ limits.page = 2 * Scale

\* C10: getPaginationLimits returns limit = clamp(floor(per_page), 1, maxSize),
\* with an absent, NaN or < 1 per_page first replaced by defaultSize; every
\* per_page above maxSize gives limit = maxSize, and 1 <= limit <= maxSize.
C10_LimitClamped ==
    pc = "limits" =>
        LET p == IF Unusable(perPageIn) THEN DefaultSizeInForce ELSE perPageIn[1].v
        IN  /\ \E r \in 0..p :
                  IsFloorOf(r, p) /\ limits.limit = Clamp(r, Scale, MaxSizeInForce)
            /\ (~Unusable(perPageIn) /\ perPageIn[1].v > MaxSizeInForce)
                   => limits.limit = MaxSizeInForce
            /\ Scale <= limits.limit
            /\ limits.limit <= MaxSizeInForce

C10_Witness ==
    /\ pc = "limits"
    /\ config = None
    /\ perPageIn = Some(Num(100 * Scale + 1))
    /\ limits.limit = 100 * Scale

\* C11: getPaginationLimits returns offset = (page - 1) * limit, with page the
\* normalized page and limit the clamped limit it returns; so the offset is
\* >= 0 and a multiple of the limit.
C11_OffsetFromPageAndLimit ==
    pc = "limits" =>
        /\ limits.offset * Scale = (limits.page - Scale) * limits.limit
        /\ limits.offset >= 0
        /\ \E k \in 0..MaxPage : limits.offset = k * limits.limit

C11_Witness ==
    /\ pc = "limits"
    /\ pageIn = Some(Num(3 * Scale))
    /\ perPageIn = Some(Num(7 * Scale + 1))
    /\ limits.offset = 14 * Scale

----------------------------------------------------------------------------
(* Properties of the pagination metadata; numbers in units of 1/Scale *)

\* L = max(1, ceil(total / limit)) for total >= 0 and limit >= 1
IsLastPageOf(L, total, limit) ==
    /\ IsInteger(L)
    /\ IF total = 0 THEN L = Scale
       ELSE (L - Scale) * limit < total * Scale /\ total * Scale <= L * limit

MetaComputed == pc \in {"meta", "paginated"}

\* C12: for every total >= 0 and limit >= 1 the metadata reports
\* last_page = max(1, ceil(total / limit)); last_page = 1 when total = 0.
C12_LastPageAtLeastOne ==
    MetaComputed =>
        IsLastPageOf(result.meta.totalPages, result.count, result.meta.perPage)

\* the part of C12 the code keeps: last_page = ceil(total / limit) when total > 0
C12_LastPageWhenRows ==
    (MetaComputed /\ result.count > 0) =>
        IsLastPageOf(result.meta.totalPages, result.count, result.meta.perPage)

\* C14: calculateMeta clamps current_page into [1, last_page] for every
\* requested page, so 1 <= current_page <= last_page for every total >= 0
\* and limit >= 1.
C14_CurrentPageClamped ==
    pc = "meta" =>
        /\ Scale <= result.meta.currentPage
        /\ result.meta.currentPage <= result.meta.totalPages

\* the part of C14 the code keeps: the clamp holds whenever total > 0
C14_ClampedWhenRows ==
    (pc = "meta" /\ result.count > 0) =>
        /\ Scale <= result.meta.currentPage
        /\ result.meta.currentPage <= result.meta.totalPages
        /\ result.meta.currentPage =
               Clamp(pageIn[1].v, Scale, result.meta.totalPages)

\* computeMeta(total = 25, page = 3, limit = 10)
C14_Example ==
    (/\ pc = "meta" /\ matching = 25
     /\ pageIn = Some(Whole(3)) /\ perPageIn = Some(Whole(10)))
        => result.meta = [totalPages |-> 3 * Scale, currentPage |-> 3 * Scale,
                          perPage |-> 10 * Scale, from |-> 21 * Scale,
                          to |-> 25 * Scale]

\* a paginated users request was answered with a page
Answered == pc = "done" /\ response.status = SUCCESS

\* C13: in the metadata returned for a paginated users request, from = 0 when
\* total = 0 and otherwise from = (current_page - 1) * per_page + 1, and
\* to = min(current_page * per_page, total).
C13_FromAndTo ==
    Answered =>
        LET m == response.meta
        IN  /\ response.total = 0 => m.from = 0
            /\ response.total > 0 =>
                   m.from * Scale = (m.currentPage - Scale) * m.perPage + Scale * Scale
            /\ m.to * Scale = Min(m.currentPage * m.perPage, response.total * Scale)

\* the part of C13 the code keeps: from when total > 0, and to always
C13_FromAndToWhenRows ==
    Answered =>
        LET m == response.meta
        IN  /\ response.total > 0 =>
                   m.from * Scale = (m.currentPage - Scale) * m.perPage + Scale * Scale
            /\ m.to * Scale = Min(m.currentPage * m.perPage, response.total * Scale)

\* C15: the total returned with a page is the number of rows that satisfy the
\* base predicate and the compiled filter predicates, whatever page and
\* per_page were requested; it is not the size of the returned page.
C15_TotalIsFilteredCount ==
    Answered =>
        /\ response.total = matching * Scale
        /\ response.rows =
               WindowRows(matching * Scale, limits.offset, limits.limit)

C15_Witness ==
    /\ Answered
    /\ Len(filters) >= 1
    /\ limits.page = 2 * Scale
    /\ limits.limit = 2 * Scale
    /\ matching = MaxTotal
    /\ response.rows = 2
    /\ response.total = MaxTotal * Scale

----------------------------------------------------------------------------
(* Properties of buildSortQuery *)

\* sort_by is absent, empty, a sentinel token or not in allowedSortFields
SortFallsBack ==
    \/ sortBy = None
    \/ sortBy[1] = <<>>
    \/ sortBy[1] \in SentinelTokens
    \/ \A i \in 1..Len(allowedFields) : allowedFields[i] # sortBy[1]

DefaultOrderBy == [field |-> <<"entity", ".", "created_at">>, order |-> DESC]

\* C16: given a sort_by that is absent, empty, a sentinel token or not in
\* allowedSortFields, buildSortQuery orders by the creation-timestamp field
\* descending, whatever sort_order is, and returns without throwing.
C16_DefaultSortOnInvalidField ==
    /\ pc \in {"start", "sorted"}
    /\ (pc = "start" => ENABLED BuildSort)
    /\ (pc = "sorted" /\ SortFallsBack) => orderBy = DefaultOrderBy

C16_Witness ==
    /\ pc = "sorted"
    /\ sortBy = Some(<<"secret">>)
    /\ sortOrder = Some(<<"a", "s", "c">>)
    /\ orderBy = DefaultOrderBy

\* sort_by is a valid allowed field
SortFieldValid == ~SortFallsBack /\ Trim(sortBy[1]) # <<>>

\* sort_order matches the word desc, whatever the case of its letters
SaysDesc == sortOrder # None /\ ToLowerCase(sortOrder[1]) = <<"d", "e", "s", "c">>

\* C17: when sort_by is a valid allowed field, the direction is descending
\* when sort_order matches desc case-insensitively, and ascending whenever
\* sort_order is absent or is neither asc nor desc.
C17_DirectionCaseInsensitive ==
    (pc = "sorted" /\ SortFieldValid) =>
        /\ orderBy.field = <<"entity", ".">> \o sortBy[1]
        /\ orderBy.order = IF SaysDesc THEN DESC ELSE ASC

\* the part of C17 the code keeps: the spellings desc and DESC give
\* descending, every other sort_order gives ascending
C17_DirectionExactSpellings ==
    (pc = "sorted" /\ SortFieldValid) =>
        /\ orderBy.field = <<"entity", ".">> \o sortBy[1]
        /\ orderBy.order =
              IF sortOrder \in {Some(<<"d", "e", "s", "c">>), Some(DESC)}
              THEN DESC ELSE ASC

----------------------------------------------------------------------------
(* Properties of the lists bound by buildSearchQuery *)

\* positions of the commas of s
Commas(s) == {i \in 1..Len(s) : s[i] = ","}

\* position of the k-th comma of s; 0 before the first, Len(s) + 1 after the last
CommaAt(s, k) ==
    IF k = 0 THEN 0
    ELSE IF k > Cardinality(Commas(s)) THEN Len(s) + 1
    ELSE CHOOSE i \in Commas(s) : Cardinality({j \in Commas(s) : j <= i}) = k

\* the k-th comma-separated piece of s
Piece(s, k) == SubSeq(s, CommaAt(s, k - 1) + 1, CommaAt(s, k) - 1)

\* v is seg without the blanks at its two ends
IsTrimOf(v, seg) ==
    \E a \in 0..Len(seg) : \E b \in 0..(Len(seg) - a) :
        /\ v = SubSeq(seg, a + 1, Len(seg) - b)
        /\ \A i \in 1..a : seg[i] = " "
        /\ \A i \in (Len(seg) - b + 1)..Len(seg) : seg[i] = " "
        /\ v # <<>> => (v[1] # " " /\ v[Len(v)] # " ")

\* vals is s split on commas, each piece trimmed, in the original order
IsSplitAndTrimmed(vals, s) ==
    /\ Len(vals) = Cardinality(Commas(s)) + 1
    /\ \A k \in 1..Len(vals) : IsTrimOf(vals[k], Piece(s, k))

\* the filter a predicate was compiled from
FilterOf(w) == filters[w.index + 1]

\* the predicate binds one list, under the parameter name of its position
BindsOneList(w) ==
    /\ Len(w.params) = 1
    /\ w.params[1].spread
    /\ w.params[1].name = ParamName(w.index)

\* C18: for IN, NOT_IN and ARRAY_OVERLAP filters the bound list is values_list
\* split on commas, each element trimmed of surrounding whitespace, in the
\* original order.
C18_ListSplitAndTrimmed ==
    \A j \in 1..Len(wheres) :
        FilterOf(wheres[j]).filter_type \in ClaimListOps =>
            /\ BindsOneList(wheres[j])
            /\ IsSplitAndTrimmed(wheres[j].params[1].value,
                                 FilterOf(wheres[j]).values_list[1])

C18_Witness ==
    /\ pc = "built"
    /\ \E j \in 1..Len(wheres) :
          /\ FilterOf(wheres[j]).filter_type = "array_overlap"
          /\ FilterOf(wheres[j]).values_list =
                 Some(<<"a", ",", " ", "b", " ", ",", "c">>)
          /\ wheres[j].params[1].value = << <<"a">>, <<"b">>, <<"c">> >>

\* C19: the list bound for a set-membership filter never contains an empty
\* string: empty entries produced by splitting values_list are dropped.
C19_NoEmptyBoundEntries ==
    \A j \in 1..Len(wheres) :
        FilterOf(wheres[j]).filter_type \in ClaimListOps =>
            \A k \in 1..Len(wheres[j].params[1].value) :
                wheres[j].params[1].value[k] # <<>>

ClaimArrayOps == {"array_contains", "array_overlap"}

\* C20: ARRAY_CONTAINS and ARRAY_OVERLAP both take their operand from the
\* comma-separated list and bind it split and trimmed as IN does.
C20_ArrayOperandsFromList ==
    \A j \in 1..Len(wheres) :
        FilterOf(wheres[j]).filter_type \in ClaimArrayOps =>
            /\ BindsOneList(wheres[j])
            /\ FilterOf(wheres[j]).values_list # None
            /\ IsSplitAndTrimmed(wheres[j].params[1].value,
                                 FilterOf(wheres[j]).values_list[1])

\* C20 as the code has it: ARRAY_OVERLAP binds values_list split and trimmed
\* as IN does; ARRAY_CONTAINS binds the single value search_query, unsplit.
C20_ArrayOperandsByOperator ==
    \A j \in 1..Len(wheres) :
        /\ FilterOf(wheres[j]).filter_type = "array_overlap" =>
               /\ BindsOneList(wheres[j])
               /\ IsSplitAndTrimmed(wheres[j].params[1].value,
                                    FilterOf(wheres[j]).values_list[1])
        /\ FilterOf(wheres[j]).filter_type = "array_contains" =>
               /\ Len(wheres[j].params) = 1
               /\ ~wheres[j].params[1].spread
               /\ wheres[j].params[1].name = ParamName(wheres[j].index)
               /\ wheres[j].params[1].value =
                      <<FilterOf(wheres[j]).search_query[1]>>

C20_Witness ==
    /\ pc = "built"
    /\ \E j \in 1..Len(wheres) :
          /\ FilterOf(wheres[j]).filter_type = "array_contains"
          /\ FilterOf(wheres[j]).values_list # None
          /\ wheres[j].params[1].value = << <<"x">> >>

----------------------------------------------------------------------------
(* Properties of the values bound by buildSearchQuery *)

ClaimBothSidesOps ==
    {"like", "ilike", "not_like", "not_ilike", "contains", "icontains"}

ClaimPatternOps == ClaimBothSidesOps \cup {"starts_with", "ends_with"}

\* the string s holds the atom '%'
HasWildcard(s) == \E i \in 1..Len(s) : s[i] = "%"

\* some value bound by the predicate holds '%'
BindsWildcard(w) ==
    \E k \in 1..Len(w.params) :
        \E n \in 1..Len(w.params[k].value) : HasWildcard(w.params[k].value[n])

\* the predicate binds the single string s
BindsString(w, s) ==
    /\ Len(w.params) = 1
    /\ ~w.params[1].spread
    /\ w.params[1].value = <<s>>

\* C21: the bound pattern is value + '%' for STARTS_WITH, '%' + value for
\* ENDS_WITH and '%' + value + '%' for LIKE, ILIKE, NOT_LIKE, NOT_ILIKE,
\* CONTAINS and ICONTAINS; no other operator adds a wildcard to what it binds.
C21_WildcardPlacement ==
    \A j \in 1..Len(wheres) :
        LET w == wheres[j]
            t == FilterOf(w).filter_type
            q == FilterOf(w).search_query
        IN  /\ (t = "starts_with" /\ q # None) => BindsString(w, q[1] \o <<"%">>)
            /\ (t = "ends_with" /\ q # None) => BindsString(w, <<"%">> \o q[1])
            /\ (t \in ClaimBothSidesOps /\ q # None) =>
                   BindsString(w, <<"%">> \o q[1] \o <<"%">>)
            /\ t \notin ClaimPatternOps => ~BindsWildcard(w)

C21_Witness ==
    /\ pc = "built"
    /\ \E j \in 1..Len(wheres) :
          /\ FilterOf(wheres[j]).filter_type = "starts_with"
          /\ BindsString(wheres[j], <<"x", "%">>)

----------------------------------------------------------------------------
(* Properties of the JSON operators of buildSearchQuery *)

ClaimJsonOps == {"json_contains", "json_contained"}

ClaimPathOps == {"json_extract", "json_extract_text"}

\* the filter names a field of the allow-list that is no sentinel and not blank
OnAllowedField(f) ==
    /\ f.search_by # None
    /\ \E k \in 1..Len(allowedFields) : allowedFields[k] = f.search_by[1]
    /\ f.search_by[1] \notin {<<"NaN">>, <<"undefined">>, <<"null">>}
    /\ \E n \in 1..Len(f.search_by[1]) : f.search_by[1][n] # " "

\* diagnostics emitted while the filter at position i was processed
DiagnosticsOf(i, level) ==
    {k \in 1..Len(diagnostics) :
        diagnostics[k].index = i - 1 /\ diagnostics[k].level = level}

ContainmentSql(t) == IF t = "json_contains" THEN "@>" ELSE "<@"

\* an EQUAL filter with its operand on an allowed field
PlainEqual(f) ==
    f.filter_type = "equal" /\ OnAllowedField(f) /\ ~AbsentOrEmpty(f.search_query)

C23_PathExtractionAlwaysDiagnosed ==
    pc = "built" =>
        \A i \in 1..Len(filters) :
            filters[i].filter_type \in ClaimPathOps =>
                /\ PredicatesOf(i) = {}
                /\ DiagnosticsOf(i, "warn") # {}

\* C23 as amended: a path-extraction filter never appends a predicate; it
\* surfaces one diagnostic when its field passes the field-name guard, and is
\* dropped without any diagnostic when its field does not.
C23_PathExtractionDiagnosedOnAllowedField ==
    pc = "built" =>
        \A i \in 1..Len(filters) :
            filters[i].filter_type \in ClaimPathOps =>
                /\ PredicatesOf(i) = {}
                /\ OnAllowedField(filters[i]) =>
                       Cardinality(DiagnosticsOf(i, "warn")) = 1
                /\ ~OnAllowedField(filters[i]) =>
                       \A k \in 1..Len(diagnostics) : diagnostics[k].index # i - 1

C23_Witness ==
    /\ pc = "built"
    /\ Len(filters) = 2
    /\ filters[2].filter_type = "json_extract_text"
    /\ OnAllowedField(filters[2])
    /\ Cardinality(DiagnosticsOf(2, "warn")) = 1
    /\ PredicatesOf(2) = {}

----------------------------------------------------------------------------
(* Properties of a paginated users request: failures, sorting, rows *)

\* the storage query of the request failed
StorageFailed == thrown \in StorageErrors

\* C24: if the storage query fails during a paginated request, it is not
\* retried, the caller receives a generic 5xx response, and that response
\* carries no rows and no page metadata.
C24_StorageFailureIs5xx ==
    StorageFailed =>
        /\ storageCalls = 1
        /\ pc \in {"caught", "done"}
        /\ pc = "done" =>
               /\ response.status \in 500..599
               /\ response.error # <<>>
               /\ response.rows = 0
               /\ response.total = 0
               /\ response.meta = NoMeta

C24_Witness ==
    /\ pc = "done"
    /\ thrown.name = "QueryFailedError"
    /\ Len(filters) >= 1
    /\ matching > 0
    /\ storageCalls = 1
    /\ response.status = INTERNAL_SERVER_ERROR
    /\ response.rows = 0

\* the list of messages handleError hands to ResponseHelper.generate as
\* { error: [...] } for the error the controller caught
MessagesOfCaught ==
    IF thrown.message # <<>> THEN <<thrown.message>> ELSE <<DefaultErrorText>>

HasComma(s) == \E i \in 1..Len(s) : s[i] = ","

\* C25: the error field of an error response is exactly the in-order sequence
\* of the message strings of the error structure it was built from: no
\* message is split, merged or dropped.
C25_ErrorListKeepsMessages ==
    (pc = "done" /\ response.status >= 300) => response.error = MessagesOfCaught

\* the part of C25 the code keeps: messages that hold no comma are passed on
\* unchanged and in order
C25_MessagesWithoutCommaKept ==
    (/\ pc = "done" /\ response.status >= 300
     /\ \A k \in 1..Len(MessagesOfCaught) : ~HasComma(MessagesOfCaught[k]))
        => response.error = MessagesOfCaught

\* C26: for every paginated users request the field placed in ORDER BY is a
\* member of the service's allowedSortFields or the default creation-timestamp
\* field; a sort_by outside the allow-list never reaches the query text.
C26_OrderByFieldAllowed ==
    orderBy # NoOrderBy =>
        \/ orderBy.field = <<"user", ".", "createdAt">>
        \/ \E k \in 1..Len(UsersAllowedSortFields) :
               orderBy.field = <<"user", ".">> \o UsersAllowedSortFields[k]

\* what the code does: ORDER BY names sort_by as the request gave it
C26_OrderByFieldIsSortBy ==
    orderBy # NoOrderBy =>
        orderBy.field = <<"user", ".">> \o
            (IF sortBy = None \/ sortBy[1] = <<>> THEN <<"createdAt">> ELSE sortBy[1])

\* the rows of the response are those at positions from..to of the filtered,
\* ordered result set: the window starts at from and holds to - from + 1 rows
RowsAreFromTo ==
    /\ limits.offset + Scale = response.meta.from
    /\ response.rows * Scale = response.meta.to - response.meta.from + Scale

\* C27: for every paginated users request with total > 0 the rows returned
\* are exactly the rows at positions from..to of the filtered, ordered result
\* set, also when the requested page is greater than last_page.
C27_RowsAreFromTo ==
    (Answered /\ response.total > 0) => RowsAreFromTo

\* the part of C27 the code keeps: the requested page is not beyond last_page
C27_RowsAreFromToWithinLastPage ==
    (Answered /\ response.total > 0 /\ limits.page <= response.meta.totalPages)
        => RowsAreFromTo

----------------------------------------------------------------------------
(* Bind-parameter names of buildSearchQuery *)

\* the places of the bound parameters of one call: predicate j, parameter a
ParamPlaces == {pl \in (1..Len(wheres)) \X (1..2) : pl[2] <= Len(wheres[pl[1]].params)}

NameAt(pl) == wheres[pl[1]].params[pl[2]].name

\* C28: within one call of buildSearchQuery the bind-parameter names generated
\* for the filters are pairwise distinct, the start_ and end_ names of range
\* filters included, so no bound value is overwritten by another filter's.
C28_ParamNamesDistinct ==
    pc = "built" =>
        \A p1 \in ParamPlaces : \A p2 \in ParamPlaces :
            p1 # p2 => NameAt(p1) # NameAt(p2)

\* two filters are compiled, one of them a range filter with its two names
C28_Witness ==
    /\ pc = "built"
    /\ \E j \in 1..Len(wheres) : \E k \in 1..Len(wheres) :
          /\ wheres[j].index # wheres[k].index
          /\ FilterOf(wheres[j]).filter_type = "between"
          /\ Len(wheres[j].params) = 2
          /\ Len(wheres[k].params) = 1

----------------------------------------------------------------------------
(* Properties of the users table under concurrent calls *)

\* no two non-deleted users hold the same email
NoDuplicateEmail ==
    \A i \in NonDeleted : \A j \in NonDeleted :
        i # j => users[i].email # users[j].email

\* a create that has returned saved its row or failed with a conflict
CreateSucceedsOrConflicts ==
    \A p \in Procs :
        At(p, "create", "done") => calls[p].outcome \in {"ok", "conflict"}

\* C29: under any interleaving of concurrent create and update calls no two
\* non-deleted users ever hold the same email: of two concurrent creates with
\* the same email at most one succeeds and the other fails with a conflict.
C29_EmailsStayUnique ==
    NoDuplicateEmail /\ CreateSucceedsOrConflicts

\* a delete(id) has succeeded: only DeleteWrite sets deletedAt, and it is the
\* step in which the delete succeeds
Deleted(id) == id \in 1..Len(users) /\ users[id].deleted

\* caller p makes a call in this step
Starts(p) == Free(p) /\ calls'[p] # calls[p]

\* C30: after delete(id) has succeeded the user is never again returned by
\* findById, findByEmail, findAll or the paginated query, and every later
\* findById, update or delete for that id fails with not-found.
C30_DeletedUserStaysGone ==
    [][\A id \in Ids :
          Deleted(id) =>
             /\ Deleted(id)'
             /\ \A p \in Procs :
                   calls'[p] # calls[p] =>
                      /\ id \notin calls'[p].result
                      /\ (/\ Starts(p)
                          /\ calls'[p].op \in {"findById", "update", "delete"}
                          /\ calls'[p].id = id)
                            => calls'[p].outcome = "not_found"]_vars

\* a delete has succeeded and a later findById for its id has returned
C30_Witness ==
    \E p \in Procs : \E q \in Procs :
        /\ At(p, "delete", "done") /\ calls[p].outcome = "ok"
        /\ At(q, "findById", "done") /\ calls[q].id = calls[p].id
        /\ calls[q].outcome = "not_found"
        /\ Deleted(calls[p].id)

====
